---- MODULE Spec2Model ----
(***************************************************************************)
(* atomic_sibling_counter (src/src/lib.rs): one heap-allocated AtomicU64   *)
(* ("the cell") shared by SiblingCounter and SiblingToken handles.  The    *)
(* low half of the word counts tokens, the high half counts counters.      *)
(*                                                                         *)
(* Scaling.  The source word has 64 bits, two halves of 32 bits, and the   *)
(* reserved zone starts at u32::MAX - 1_000_000.  TLC's integers have 32   *)
(* bits, so the word is modelled with two halves of HalfBits bits and a    *)
(* reserve of Reserve; every operation is computed modulo the scaled       *)
(* width exactly as the source computes it modulo 2^64.                    *)
(*                                                                         *)
(* Handles.  A handle holds nothing but the pointer to the cell, so the    *)
(* handles of one kind are indistinguishable and the model keeps their     *)
(* number, live[kind].  Rust's borrow rules are kept: an operation in      *)
(* flight borrows (&self) one live handle of kind src[t], which cannot be  *)
(* dropped meanwhile.  Several operations may borrow the same handle       *)
(* (both types are Sync), so a drop of kind k needs one handle of kind k   *)
(* beside the borrowed one.                                                *)
(*                                                                         *)
(* Panics.  A failed assert! of add_reference panics.  A panic unwinds: it *)
(* ends the operation, not the program (other threads go on, and so does   *)
(* the panicking thread under catch_unwind), so the model goes on after    *)
(* add_reference_panic.                                                    *)
(***************************************************************************)
EXTENDS Integers, FiniteSets

\* ---------------------------------------------------------------- bounds
\* number of threads that run operations on the cell concurrently
NThreads == 2
\* how many references past one full wrap of a half may be attached at a time
Extra == 1

\* ------------------------------------------- program constants, scaled
\* width of one half of the word (32 in the source)
HalfBits == 2
\* size of the reserved zone below u32::MAX (1_000_000 in the source)
Reserve == 1

Threads == 1..NThreads
Parts == {"Token", "Counter"}

\* ------------------------------------------------------------- the word
FieldMod == 2 ^ HalfBits
WordMod == FieldMod * FieldMod
Words == 0..(WordMod - 1)
U32Max == FieldMod - 1
Limit == U32Max - Reserve
\* bound of the model: the references attached to the cell at a time
MaxRefs == FieldMod + Extra

\* a counter unit one bit short, which reaches into the low half
One_short(part) == IF part = "Token" THEN 1 ELSE FieldMod \div 2

\* the match on CounterPart: 1 for a token, 0x1_00_00_00_00 for a counter
One(part) == IF part = "Token" THEN 1 ELSE FieldMod

\* (sibling_count, issuer_count)
split_counters(counters) == <<counters % FieldMod, counters \div FieldMod>>

\* AtomicU64::fetch_add / fetch_sub wrap around on overflow
fetch_add(w, one) == (w + one) % WordMod
fetch_sub(w, one) == (w + WordMod - one) % WordMod

\* the two asserts of add_reference, on the value before the update
add_reference_ok(old_counters) ==
    /\ split_counters(old_counters)[1] < Limit
    /\ split_counters(old_counters)[2] < Limit

\* the test of remove_reference: was this the last referring instance
last_reference(old_counters, part) == old_counters = One(part)

\* the value sibling_count returns for a loaded word
sibling_count(counters) == split_counters(counters)[1]

\* a constructor that starts every cell with one token reference
new_reference_counters_token(initiator) == One("Token")

new_reference_counters(initiator) == One(initiator)

VARIABLES
    word,       \* the content of the cell (its last content, once freed)
    allocated,  \* the Box is allocated
    frees,      \* number of drop(Box::from_raw) performed, 2 = two or more
    uaf,        \* some atomic step was executed on the freed cell
    live,       \* live[kind]: number of live handles of the kind
    attached,   \* attached[kind]: fetch_adds minus fetch_subs of the kind (history)
    pc,         \* pc[t]: where thread t is inside its operation
    part,       \* part[t]: the CounterPart of the operation in flight
    src,        \* src[t]: the kind of the handle the operation borrows
    ret,        \* ret[t]: the value the sibling_count of thread t is returning
    win         \* history of one observed sibling_count call (who = 0: none)

vars == <<word, allocated, frees, uaf, live, attached, pc, part, src, ret, win>>

\* pc[t]:  "idle"       no operation in flight
\*         "add_ok"     add_reference is past its asserts, with_counters returns
\*         "add_panic"  an assert of add_reference failed, the panic unwinds
\*         "rm_free"    remove_reference is inside its if, before the drop
\*         "rm_done"    remove_reference is past its if
\*         "sc_load"    sibling_count is called, before its load
\*         "sc_ret"     sibling_count has loaded, before its return
Locations == {"idle", "add_ok", "add_panic", "rm_free", "rm_done", "sc_load", "sc_ret"}

NoWin == [who |-> 0, lo |-> 0, hi |-> 0, live0 |-> 0, mint |-> FALSE]

\* some operation in flight borrows (&self) a handle of kind k
Borrowed(k) ==
    \E t \in Threads : pc[t] \in {"add_ok", "add_panic", "sc_load", "sc_ret"} /\ src[t] = k

\* an attach is between its fetch_add and its return
MintInFlight == \E t \in Threads : pc[t] \in {"add_ok", "add_panic"}

\* an atomic access of the cell: what it reads.  On a freed cell the access is
\* undefined behaviour: the memory may hold anything, and what a write does to
\* it is not followed.
Reads == IF allocated THEN {word} ELSE Words

\* the observed call's window follows the number of attached token references:
\* n is the new number, minted says that the step is an attach
Track(n, minted) ==
    IF win.who # 0
    THEN [win EXCEPT !.lo = IF n < @ THEN n ELSE @,
                     !.hi = IF n > @ THEN n ELSE @,
                     !.mint = @ \/ minted]
    ELSE win

\* the operation of thread t is over: its locals are gone
Return(t) ==
    /\ pc' = [pc EXCEPT ![t] = "idle"]
    /\ part' = [part EXCEPT ![t] = "Token"]
    /\ src' = [src EXCEPT ![t] = "Token"]
    /\ ret' = [ret EXCEPT ![t] = 0]

\* SiblingCounter::new() or SiblingToken::new()
Init ==
    \E initiator \in Parts :
        /\ word = new_reference_counters(initiator)
        /\ allocated = TRUE
        /\ frees = 0
        /\ uaf = FALSE
        /\ live = [k \in Parts |-> IF k = initiator THEN 1 ELSE 0]
        /\ attached = [k \in Parts |-> IF k = initiator THEN 1 ELSE 0]
        /\ pc = [t \in Threads |-> "idle"]
        /\ part = [t \in Threads |-> "Token"]
        /\ src = [t \in Threads |-> "Token"]
        /\ ret = [t \in Threads |-> 0]
        /\ win = NoWin

\* A new operation starts only while no undefined behaviour has happened: the
\* model follows the program up to its first step on a freed cell and lets the
\* operations in flight finish.
\*
\* with_counters calls add_reference through a borrowed handle of kind s, for
\* a new handle of kind p: the fetch_add, then the asserts on old_counters
\*   s = Counter, p = Token    SiblingCounter::add_sibling
\*   s = Counter, p = Counter  SiblingCounter::clone
\*   s = Token,   p = Counter  SiblingToken::counter
\*   s = Token,   p = Token    SiblingToken::clone, SiblingToken::add_sibling
add_reference(t, s, p) ==
    /\ pc[t] = "idle"
    /\ ~uaf
    /\ live[s] > 0
    /\ attached["Token"] + attached["Counter"] < MaxRefs
    /\ \E old_counters \in Reads :
        /\ word' = IF allocated THEN fetch_add(old_counters, One(p)) ELSE word
        /\ pc' = [pc EXCEPT ![t] = IF add_reference_ok(old_counters)
                                   THEN "add_ok" ELSE "add_panic"]
    /\ uaf' = (uaf \/ ~allocated)
    /\ attached' = [attached EXCEPT ![p] = @ + 1]
    /\ part' = [part EXCEPT ![t] = p]
    /\ src' = [src EXCEPT ![t] = s]
    /\ win' = Track(attached["Token"] + (IF p = "Token" THEN 1 ELSE 0), TRUE)
    /\ UNCHANGED <<allocated, frees, live, ret>>

\* with_counters returns Self { counters }: the new handle is live
with_counters_return(t) ==
    /\ pc[t] = "add_ok"
    /\ live' = [live EXCEPT ![part[t]] = @ + 1]
    /\ Return(t)
    /\ UNCHANGED <<word, allocated, frees, uaf, attached, win>>

\* the panic of a failed assert leaves add_reference: no handle, and nothing
\* takes the fetch_add back
add_reference_panic(t) ==
    /\ pc[t] = "add_panic"
    /\ Return(t)
    /\ UNCHANGED <<word, allocated, frees, uaf, live, attached, win>>

\* Drop::drop of a handle of kind p (no operation borrows it) calls
\* remove_reference: the fetch_sub, then the test old_counters == one
remove_reference(t, p) ==
    /\ pc[t] = "idle"
    /\ ~uaf
    /\ live[p] > (IF Borrowed(p) THEN 1 ELSE 0)
    /\ \E old_counters \in Reads :
        /\ word' = IF allocated THEN fetch_sub(old_counters, One(p)) ELSE word
        /\ pc' = [pc EXCEPT ![t] = IF last_reference(old_counters, p)
                                   THEN "rm_free" ELSE "rm_done"]
    /\ uaf' = (uaf \/ ~allocated)
    /\ live' = [live EXCEPT ![p] = @ - 1]
    /\ attached' = [attached EXCEPT ![p] = IF @ > 0 THEN @ - 1 ELSE 0]
    /\ part' = [part EXCEPT ![t] = p]
    /\ win' = Track(IF p = "Token" /\ attached[p] > 0
                    THEN attached[p] - 1 ELSE attached["Token"], FALSE)
    /\ UNCHANGED <<allocated, frees, src, ret>>

\* a drop that waits for the other threads to finish before it frees
remove_reference_free_wait(t) ==
    /\ pc[t] = "rm_free"
    /\ \A u \in Threads \ {t} : pc[u] = "idle"
    /\ allocated' = FALSE
    /\ frees' = IF frees < 2 THEN frees + 1 ELSE 2
    /\ Return(t)
    /\ UNCHANGED <<word, uaf, live, attached, win>>

\* drop(Box::from_raw(counters.as_ptr()))
remove_reference_free(t) ==
    /\ pc[t] = "rm_free"
    /\ allocated' = FALSE
    /\ frees' = IF frees < 2 THEN frees + 1 ELSE 2
    /\ Return(t)
    /\ UNCHANGED <<word, uaf, live, attached, win>>

\* remove_reference returns without freeing
remove_reference_return(t) ==
    /\ pc[t] = "rm_done"
    /\ Return(t)
    /\ UNCHANGED <<word, allocated, frees, uaf, live, attached, win>>

\* sibling_count(&self) is called on a handle of kind s; the history may
\* observe the call when it observes no other
sibling_count_call(t, s) ==
    /\ pc[t] = "idle"
    /\ ~uaf
    /\ live[s] > 0
    /\ pc' = [pc EXCEPT ![t] = "sc_load"]
    /\ src' = [src EXCEPT ![t] = s]
    /\ \/ win' = win
       \/ /\ win.who = 0
          /\ win' = [who |-> t, lo |-> attached["Token"], hi |-> attached["Token"],
                     live0 |-> live["Token"], mint |-> MintInFlight]
    /\ UNCHANGED <<word, allocated, frees, uaf, live, attached, part, ret>>

\* split_counters(counters.as_ref().load(Relaxed)).0
sibling_count_load(t) ==
    /\ pc[t] = "sc_load"
    /\ \E counters \in Reads : ret' = [ret EXCEPT ![t] = sibling_count(counters)]
    /\ uaf' = (uaf \/ ~allocated)
    /\ pc' = [pc EXCEPT ![t] = "sc_ret"]
    /\ UNCHANGED <<word, allocated, frees, live, attached, part, src, win>>

\* the call returns ret[t]
sibling_count_return(t) ==
    /\ pc[t] = "sc_ret"
    /\ Return(t)
    /\ win' = IF win.who = t THEN NoWin ELSE win
    /\ UNCHANGED <<word, allocated, frees, uaf, live, attached>>

Next ==
    \/ \E t \in Threads, s \in Parts, p \in Parts : add_reference(t, s, p)
    \/ \E t \in Threads : with_counters_return(t)
    \/ \E t \in Threads : add_reference_panic(t)
    \/ \E t \in Threads, p \in Parts : remove_reference(t, p)
    \/ \E t \in Threads : remove_reference_free(t)
    \/ \E t \in Threads : remove_reference_return(t)
    \/ \E t \in Threads, s \in Parts : sibling_count_call(t, s)
    \/ \E t \in Threads : sibling_count_load(t)
    \/ \E t \in Threads : sibling_count_return(t)

Spec == Init /\ [][Next]_vars

\* The program restricted to the runs in which no assert of add_reference
\* fails (no attach is made at the capacity limit).
NoPanicNext == Next /\ \A t \in Threads : pc'[t] # "add_panic"
SpecNoPanic == Init /\ [][NoPanicNext]_vars

TypeOK ==
    /\ word \in Words
    /\ allocated \in BOOLEAN
    /\ uaf \in BOOLEAN
    /\ frees \in 0..2
    /\ live \in [Parts -> 0..MaxRefs]
    /\ attached \in [Parts -> 0..MaxRefs]
    /\ pc \in [Threads -> Locations]
    /\ part \in [Threads -> Parts]
    /\ src \in [Threads -> Parts]
    /\ ret \in [Threads -> 0..U32Max]

\* ---------------------------------------------------------------- claims
Quiescent == \A t \in Threads : pc[t] = "idle"
NoHandle == live["Token"] = 0 /\ live["Counter"] = 0

\* thread t performs the fetch_add of an attach of part p in this step
AttachStep(t, p) ==
    pc[t] = "idle" /\ pc'[t] \in {"add_ok", "add_panic"} /\ part'[t] = p
\* thread t performs the fetch_sub of a drop of part p in this step
DetachStep(t, p) ==
    pc[t] = "idle" /\ pc'[t] \in {"rm_free", "rm_done"} /\ part'[t] = p
\* a sub-count of the word is in the reserved zone
InZone(c) == split_counters(c)[1] >= Limit \/ split_counters(c)[2] >= Limit

\* C1: if the cell has been freed then no handle of either kind is live, and
\* the cell has been freed at most once.
C1_FreedOnceByLastHandle ==
    /\ ~allocated => NoHandle
    /\ frees <= 1

\* C2: in every quiescent state, sibling_count() on any live handle returns
\* exactly the number of live SiblingToken handles.
C2_CountIsLiveTokens ==
    (Quiescent /\ ~NoHandle) => \A r \in Reads : sibling_count(r) = live["Token"]

\* C3: no atomic step of a handle operation is executed on a freed cell.
C3_NoUseAfterFree == ~uaf

\* C4: no reachable state has zero live handles, no operation in flight and a
\* still-allocated cell.
C4_FreedWhenAllDropped == (Quiescent /\ NoHandle) => ~allocated

\* C5: the fetch_add of an attach that creates a SiblingToken raises the low
\* sub-count by exactly 1, the fetch_sub of the drop of a SiblingToken lowers
\* it by exactly 1, and both leave the high sub-count unchanged.
C5_TokenStepsByOne ==
    [][\A t \in Threads :
        /\ (allocated /\ AttachStep(t, "Token") /\ pc'[t] = "add_ok") =>
              /\ split_counters(word')[1] = split_counters(word)[1] + 1
              /\ split_counters(word')[2] = split_counters(word)[2]
        /\ (allocated /\ DetachStep(t, "Token")) =>
              /\ split_counters(word')[1] = split_counters(word)[1] - 1
              /\ split_counters(word')[2] = split_counters(word)[2]]_vars

\* C6: no step of the creation, clone or drop of a SiblingCounter changes the
\* value sibling_count() returns on the cell.
C6_CounterStepsKeepCount ==
    [][\A t \in Threads :
        (allocated /\ (\/ AttachStep(t, "Counter")
                       \/ DetachStep(t, "Counter")
                       \/ (part[t] = "Counter" /\ pc[t] \in {"add_ok", "add_panic", "rm_done"}
                           /\ pc'[t] = "idle")))
        => sibling_count(word') = sibling_count(word)]_vars

\* C6 witness: a SiblingCounter attach and a SiblingCounter drop have acted on
\* a cell whose sibling count is not 0.
C6_Witness ==
    /\ allocated
    /\ sibling_count(word) > 0
    /\ \E t \in Threads : pc[t] = "add_ok" /\ part[t] = "Counter"
    /\ \E t \in Threads : pc[t] = "rm_done" /\ part[t] = "Counter"

\* C7: while a handle of either kind is live the cell is allocated; with only
\* tokens left the count is right and, below the capacity limit, a mint would
\* pass; with only counters left and a count of 0 the cell is allocated and
\* add_sibling would make the count 1.
C7_UsableWhileAnyHandleLives ==
    /\ ~NoHandle => allocated
    /\ (Quiescent /\ live["Counter"] = 0 /\ live["Token"] > 0) =>
          \A r \in Reads :
              /\ sibling_count(r) = live["Token"]
              /\ live["Token"] < Limit => add_reference_ok(r)
    /\ (Quiescent /\ live["Token"] = 0 /\ live["Counter"] > 0) =>
          \A r \in Reads :
              /\ sibling_count(r) = 0
              /\ live["Counter"] < Limit => add_reference_ok(r)
              /\ sibling_count(fetch_add(r, One("Token"))) = 1

\* C8: the value an (observed) sibling_count call returns is a number of
\* attached token references that held at some instant of the call, and, when
\* no attach ran concurrently, it is at most the number of tokens live when
\* the call started.
C8_Linearizable ==
    (win.who # 0 /\ pc[win.who] = "sc_ret") =>
        /\ win.lo <= ret[win.who]
        /\ ret[win.who] <= win.hi
        /\ ~win.mint => ret[win.who] <= win.live0

\* C9: an attach panics exactly when a sub-count of the word before its update
\* is at least the limit; and with the limit's number of handles of its kind
\* live, one more attach panics.
C9_CapacityLimit ==
    [][\A t \in Threads, p \in Parts :
        (allocated /\ AttachStep(t, p)) =>
            /\ pc'[t] = "add_panic" <=> InZone(word)
            /\ live[p] >= Limit => pc'[t] = "add_panic"]_vars

PanicIncrements(p) ==
    attached[p] - live[p]
        - Cardinality({t \in Threads : pc[t] = "add_ok" /\ part[t] = p})

\* thread t reads the word in this step (a load, a fetch_add or a fetch_sub)
ReadStep(t) ==
    \/ pc[t] = "idle" /\ pc'[t] \in {"add_ok", "add_panic", "rm_free", "rm_done"}
    \/ pc[t] = "sc_load" /\ pc'[t] = "sc_ret"

\* C11: no load, fetch_add or fetch_sub on the allocated cell reads a word
\* that holds the increment of an attach that panics.
C11_PanicIncrementUnobserved ==
    [][\A t \in Threads : (allocated /\ ReadStep(t))
          => \A p \in Parts : PanicIncrements(p) = 0]_vars

\* C12: a panicking attach leaves nothing behind: once the attach has
\* panicked and returned, the word holds no increment of it, that is, every
\* increment in the word belongs to a live handle or to an attach in flight.
C12_NoPartialFailure ==
    \A p \in Parts :
        PanicIncrements(p)
            = Cardinality({t \in Threads : pc[t] = "add_panic" /\ part[t] = p})

\* number of steps left to the operation at a location: the load and the
\* return of sibling_count, or the step that follows a fetch_add or fetch_sub
Rank(l) == IF l = "idle" THEN 0 ELSE IF l = "sc_load" THEN 2 ELSE 1

\* the steps that continue an operation thread t has started
Continue(t) ==
    \/ with_counters_return(t)
    \/ add_reference_panic(t)
    \/ remove_reference_free(t)
    \/ remove_reference_return(t)
    \/ sibling_count_load(t)
    \/ sibling_count_return(t)

\* C13: every operation is wait-free: whatever the other threads do, a
\* thread inside an operation can take its next step (it never waits), and
\* no step it can take keeps it where it is or takes it back (no retry), so
\* that an operation is over at most two steps after its first.
C13_WaitFree ==
    \A t \in Threads :
        pc[t] # "idle" =>
            /\ ENABLED Continue(t)
            /\ ~ENABLED (Continue(t) /\ Rank(pc'[t]) >= Rank(pc[t]))

\* one thread is about to free the cell while another is inside an operation
C13_Witness ==
    \E t, u \in Threads :
        /\ pc[t] = "rm_free"
        /\ pc[u] \in {"sc_load", "sc_ret", "add_ok", "add_panic", "rm_done"}

\* the cell as its constructor leaves it: one handle, the only reference
\* ever attached, and no operation in flight
Fresh ==
    /\ Quiescent
    /\ frees = 0 /\ ~uaf
    /\ live["Token"] + live["Counter"] = 1
    /\ attached = live

\* C14: a cell fresh from SiblingCounter::new() has sibling count 0 and
\* counter sub-count 1, a cell fresh from SiblingToken::new() has sibling
\* count 1 and counter sub-count 0, and in both cases the cell is allocated.
C14_FreshCell ==
    Fresh =>
        /\ allocated
        /\ live["Counter"] = 1 =>
              sibling_count(word) = 0 /\ split_counters(word) = <<0, 1>>
        /\ live["Token"] = 1 =>
              sibling_count(word) = 1 /\ split_counters(word) = <<1, 0>>

\* a cell fresh from SiblingCounter::new()
C14_Witness == Fresh /\ live["Counter"] = 1 /\ sibling_count(word) = 0

\* C15: the fetch_sub of a drop on the allocated cell returns the unit of the
\* dropped handle's part, and so takes the branch that frees the cell,
\* exactly when the dropped handle is the only live handle of either kind.
C15_ExactDepletion ==
    [][\A t \in Threads, p \in Parts :
          (allocated /\ DetachStep(t, p))
              => (pc'[t] = "rm_free" <=> live["Token"] + live["Counter"] = 1)]_vars

\* C16: while the cell is allocated and no step has been made on a freed
\* cell, the low half of the word is the number of token references attached
\* and not yet detached and the high half is that number for counters.
C16_WordInvariant ==
    (allocated /\ ~uaf)
        => split_counters(word) = <<attached["Token"], attached["Counter"]>>

\* the half of the word that belongs to the other part
OtherHalf(c, p) ==
    IF p = "Token" THEN split_counters(c)[2] ELSE split_counters(c)[1]

\* C17: no fetch_add or fetch_sub on the allocated cell changes the half of
\* the word that belongs to the other part, whether or not the attach panics.
C17_NoCrossField ==
    [][\A t \in Threads, p \in Parts :
          (allocated /\ (AttachStep(t, p) \/ DetachStep(t, p)))
              => OtherHalf(word', p) = OtherHalf(word, p)]_vars

\* C18: the state at rest depends only on which handles are live, not on the
\* order of the attaches and drops that led there: while a handle is live
\* and the cell is allocated the word is one unit per live handle, and when
\* none is live the cell has been freed exactly once.
C18_OrderIndependent ==
    Quiescent =>
        /\ (allocated /\ ~NoHandle) =>
              word = live["Token"] * One("Token") + live["Counter"] * One("Counter")
        /\ NoHandle => ~allocated /\ frees = 1

\* C20: a sibling_count() called through a SiblingToken never returns 0.
C20_TokenCountsItself ==
    \A t \in Threads : (pc[t] = "sc_ret" /\ src[t] = "Token") => ret[t] >= 1
====
